---- MODULE Spec2Model ----
(***************************************************************************)
(* SlackAgent: the retrieval + neighbour expansion of db/search.py and the *)
(* ticket pipeline SlackagentWorkflow (say_hello, query_vector_db,         *)
(* query_jira, call_llm_for_ticket_details, create_jira_ticket,            *)
(* log_workflow_result) as it is started by run_workflow.main and executed *)
(* by the worker of run_worker.main.  SpecCalls is the specification of    *)
(* single calls of search, search_messages_with_neighbors, the body of     *)
(* query_vector_db, get_ticket_details and handle_message_events, each     *)
(* with arguments drawn from small sets.  SpecOAuth is the specification   *)
(* of the MemoryOAuthStateStore of listner/store.py under issue, consume   *)
(* and the passing of time.                                                *)
(*                                                                         *)
(* Text that the code inspects (query, channel_id) is a sequence of        *)
(* one-character strings; text that is only carried around (message        *)
(* bodies, ticket fields) is a TLA+ string.  Distances are hundredths      *)
(* (0.5 is 50).                                                            *)
(***************************************************************************)
EXTENDS Integers, Sequences, FiniteSets, TLC

VARIABLES
    wfStatus,    \* run -> "NotStarted" | "Running" | "Completed" | "Failed" | "Rejected"
    wfPos,       \* run -> number of execute_activity calls the workflow coroutine has got past
    scheduled,   \* run -> activities the workflow has scheduled so far
    pending,     \* run -> activities scheduled and not yet closed
    history,     \* run -> recorded results of the completed activities, in order
    completed,   \* run -> activities that have ever completed for the run
    attempts,    \* run -> attempts of the pending activity that used up their time
    failedStep,  \* run -> the activity whose failure failed the run, or "none"
    posts,       \* run -> issue-creation POSTs sent to the tracker for the run
    issues,      \* run -> issues the tracker created for the run
    fault,       \* run -> what went wrong inside the run's latest activity attempt, or "none"
    request,     \* a single call of one function: its name, its arguments, what it will meet
    outcomes,    \* what the calls made for the request have returned so far, in order
    states,      \* MemoryOAuthStateStore.states: state -> the expiry recorded at issue
    now,         \* datetime.now(UTC), in minutes
    oauthCalls   \* the calls of issue and consume so far with what they returned, in order

vars == <<wfStatus, wfPos, scheduled, pending, history, completed, attempts,
          failedStep, posts, issues, fault, request, outcomes, states, now,
          oauthCalls>>

\* the variables of the ticket pipeline
pipelineVars == <<wfStatus, wfPos, scheduled, pending, history, completed,
                  attempts, failedStep, posts, issues, fault>>

\* the variables of a single function call
callVars == <<request, outcomes>>

\* the variables of the OAuth state store
oauthVars == <<states, now, oauthCalls>>

(***************************************************************************)
(* Bounds                                                                  *)
(***************************************************************************)
\* attempts of one activity that fit into its schedule_to_close window
MaxAttempts == 2

\* the triggering mentions; each calls run_workflow.main once
Runs == {"r1", "r2"}

(***************************************************************************)
(* Python helpers                                                          *)
(***************************************************************************)
\* dict.get(k, default)
Get(d, k, default) == IF k \in DOMAIN d THEN d[k] ELSE default

\* an assignment that leaves a dict with the key k only
Put_Replacing(d, k, v) == [x \in {k} |-> v]

\* d[k] = v on a dict
Put(d, k, v) == [x \in DOMAIN d \cup {k} |-> IF x = k THEN v ELSE d[x]]

\* str.strip() on a sequence of characters
RECURSIVE LStrip(_)
LStrip(s) == IF s # <<>> /\ Head(s) = " " THEN LStrip(Tail(s)) ELSE s

RECURSIVE RStrip(_)
RStrip(s) ==
    IF s # <<>> /\ s[Len(s)] = " " THEN RStrip(SubSeq(s, 1, Len(s) - 1)) ELSE s

Strip(s) == RStrip(LStrip(s))

\* an optional argument: <<>> is None, <<v>> carries v
Some(v) == <<v>>

IsNone(o) == o = <<>>

(***************************************************************************)
(* db/search.py: the messages table and its three queries.  A row of the   *)
(* table is [id, channel_id, message, created_at, distance], distance      *)
(* being embedding <=> query vector for the query at hand.                 *)
(***************************************************************************)
DefaultTopKNoThreshold == 100
DefaultTopKThreshold == 1000
NeighborLimit == 5
TailLimit == 5

\* the rows of S with the least key
MinRows(S, key) == {m \in S : \A o \in S : key[m] <= key[o]}

\* ORDER BY key LIMIT n over the rows S: every sequence the database may
\* return (rows with equal keys come in either order)
RECURSIVE OrderedLimit(_, _, _)
OrderedLimit(S, key, n) ==
    IF n <= 0 \/ S = {} THEN {<<>>}
    ELSE UNION {{<<m>> \o t : t \in OrderedLimit(S \ {m}, key, n - 1)} :
                m \in MinRows(S, key)}

\* the query with the threshold itself let through
SimilarityQuery_AtMostThreshold(store, channel_id, threshold, top_k) ==
    LET hit == {m \in store :
                  /\ m.channel_id = channel_id
                  /\ (IsNone(threshold) \/ m.distance <= threshold[1])}
        rows == OrderedLimit(hit, [m \in hit |-> m.distance], top_k)
    IN  {[i \in 1..Len(q) |-> <<q[i].id, q[i].message, q[i].created_at, q[i].distance>>] :
         q \in rows}

\* the query over the messages of every channel
SimilarityQuery_AnyChannel(store, channel_id, threshold, top_k) ==
    LET hit == {m \in store : IsNone(threshold) \/ m.distance < threshold[1]}
        rows == OrderedLimit(hit, [m \in hit |-> m.distance], top_k)
    IN  {[i \in 1..Len(q) |-> <<q[i].id, q[i].message, q[i].created_at, q[i].distance>>] :
         q \in rows}

\* the query without its LIMIT
SimilarityQuery_NoLimit(store, channel_id, threshold, top_k) ==
    LET hit == {m \in store :
                  /\ m.channel_id = channel_id
                  /\ (IsNone(threshold) \/ m.distance < threshold[1])}
        rows == OrderedLimit(hit, [m \in hit |-> m.distance], Cardinality(hit))
    IN  {[i \in 1..Len(q) |-> <<q[i].id, q[i].message, q[i].created_at, q[i].distance>>] :
         q \in rows}

\* SELECT id, message, created_at, distance ... WHERE channel_id = %s
\* [AND distance < %s] ORDER BY distance LIMIT %s
SimilarityQuery(store, channel_id, threshold, top_k) ==
    LET hit == {m \in store :
                  /\ m.channel_id = channel_id
                  /\ (IsNone(threshold) \/ m.distance < threshold[1])}
        rows == OrderedLimit(hit, [m \in hit |-> m.distance], top_k)
    IN  {[i \in 1..Len(q) |-> <<q[i].id, q[i].message, q[i].created_at, q[i].distance>>] :
         q \in rows}

\* the neighbour query taking the messages before the hit
NeighborQuery_Earlier(store, channel_id, created_at) ==
    LET before == {m \in store : m.channel_id = channel_id /\ m.created_at < created_at}
        rows == OrderedLimit(before, [m \in before |-> m.created_at], NeighborLimit)
    IN  {[i \in 1..Len(q) |-> <<q[i].id, q[i].message>>] : q \in rows}

\* the neighbour query without its LIMIT
NeighborQuery_NoLimit(store, channel_id, created_at) ==
    LET after == {m \in store : m.channel_id = channel_id /\ m.created_at > created_at}
        rows == OrderedLimit(after, [m \in after |-> m.created_at], Cardinality(after))
    IN  {[i \in 1..Len(q) |-> <<q[i].id, q[i].message>>] : q \in rows}

\* SELECT id, message ... WHERE channel_id = %s AND created_at > %s
\* ORDER BY created_at ASC LIMIT 5
NeighborQuery(store, channel_id, created_at) ==
    LET after == {m \in store : m.channel_id = channel_id /\ m.created_at > created_at}
        rows == OrderedLimit(after, [m \in after |-> m.created_at], NeighborLimit)
    IN  {[i \in 1..Len(q) |-> <<q[i].id, q[i].message>>] : q \in rows}

\* the last query taking the oldest messages of the channel
TailQuery_Oldest(store, channel_id) ==
    LET chan == {m \in store : m.channel_id = channel_id}
        rows == OrderedLimit(chan, [m \in chan |-> m.created_at], TailLimit)
    IN  {[i \in 1..Len(q) |-> <<q[i].id, q[i].message>>] : q \in rows}

\* SELECT id, message ... WHERE channel_id = %s ORDER BY created_at DESC LIMIT 5
TailQuery(store, channel_id) ==
    LET chan == {m \in store : m.channel_id = channel_id}
        rows == OrderedLimit(chan, [m \in chan |-> 0 - m.created_at], TailLimit)
    IN  {[i \in 1..Len(q) |-> <<q[i].id, q[i].message>>] : q \in rows}

\* top_k after "if top_k is None: top_k = 100 if threshold is None else 1000"
EffectiveTopK(top_k, threshold) ==
    IF IsNone(top_k)
    THEN (IF IsNone(threshold) THEN DefaultTopKNoThreshold ELSE DefaultTopKThreshold)
    ELSE top_k[1]

\* search without the check of the query
search_call_QueryUnchecked(store, query, channel_id, top_k, threshold, embedOk, dbOk) ==
    LET k == EffectiveTopK(top_k, threshold)
        Empty(e, c) == {[raised |-> FALSE, value |-> <<>>,
                         embedded |-> e, connected |-> c]}
    IN  IF k <= 0 THEN Empty(FALSE, FALSE)
        ELSE IF channel_id = <<>> \/ Strip(channel_id) = <<>> THEN Empty(FALSE, FALSE)
        ELSE IF ~embedOk \/ Strip(query) = <<>> THEN Empty(TRUE, FALSE)
        ELSE IF ~dbOk THEN Empty(TRUE, TRUE)
        ELSE {[raised |-> FALSE, value |-> rows, embedded |-> TRUE, connected |-> TRUE] :
              rows \in SimilarityQuery(store, Strip(channel_id), threshold, k)}

\* search without its try/except
search_call_Uncaught(store, query, channel_id, top_k, threshold, embedOk, dbOk) ==
    LET k == EffectiveTopK(top_k, threshold)
        Empty(e, c) == {[raised |-> FALSE, value |-> <<>>,
                         embedded |-> e, connected |-> c]}
        Raise(e, c) == {[raised |-> TRUE, value |-> <<>>,
                         embedded |-> e, connected |-> c]}
    IN  IF query = <<>> \/ Strip(query) = <<>> THEN Empty(FALSE, FALSE)
        ELSE IF k <= 0 THEN Empty(FALSE, FALSE)
        ELSE IF channel_id = <<>> \/ Strip(channel_id) = <<>> THEN Empty(FALSE, FALSE)
        ELSE IF ~embedOk THEN Raise(TRUE, FALSE)
        ELSE IF ~dbOk THEN Raise(TRUE, TRUE)
        ELSE {[raised |-> FALSE, value |-> rows, embedded |-> TRUE, connected |-> TRUE] :
              rows \in SimilarityQuery(store, Strip(channel_id), threshold, k)}

\* search() with what it did on the way: the outcomes it may have.  embedOk:
\* EmbeddingGenerator() and get_embedding returned a vector; dbOk: connecting
\* and the query raised nothing.  embedded: the embedding generator was
\* called; connected: get_db_connection was called.
search_call(store, query, channel_id, top_k, threshold, embedOk, dbOk) ==
    LET k == EffectiveTopK(top_k, threshold)
        Empty(e, c) == {[raised |-> FALSE, value |-> <<>>,
                         embedded |-> e, connected |-> c]}
    IN  IF query = <<>> \/ Strip(query) = <<>> THEN Empty(FALSE, FALSE)
        ELSE IF k <= 0 THEN Empty(FALSE, FALSE)
        ELSE IF channel_id = <<>> \/ Strip(channel_id) = <<>> THEN Empty(FALSE, FALSE)
        ELSE IF ~embedOk THEN Empty(TRUE, FALSE)
        ELSE IF ~dbOk THEN Empty(TRUE, TRUE)
        ELSE {[raised |-> FALSE, value |-> rows, embedded |-> TRUE, connected |-> TRUE] :
              rows \in SimilarityQuery(store, Strip(channel_id), threshold, k)}

\* search(): the row lists it may return
search(store, query, channel_id, top_k, threshold, embedOk, dbOk) ==
    {o.value : o \in search_call(store, query, channel_id, top_k, threshold,
                                 embedOk, dbOk)}

\* unique_messages as a list of <<id, message>> in insertion order
HasId(unique, id) == \E i \in 1..Len(unique) : unique[i][1] = id

\* unique_messages[id] = message
SetId(unique, id, message) ==
    IF HasId(unique, id)
    THEN [i \in 1..Len(unique) |->
            IF unique[i][1] = id THEN <<id, message>> ELSE unique[i]]
    ELSE Append(unique, <<id, message>>)

\* first loop: every result overwrites its id
RECURSIVE SeedResults(_, _)
SeedResults(unique, results) ==
    IF results = <<>> THEN unique
    ELSE IF HasId(unique, Head(results)[1])
    THEN SeedResults(SetId(unique, Head(results)[1], Head(results)[2]), Tail(results))
    ELSE SeedResults(Append(unique, <<Head(results)[1], Head(results)[2]>>), Tail(results))

\* if id not in unique_messages: unique_messages[id] = message, for each row
RECURSIVE AddMissing(_, _)
AddMissing(unique, rows) ==
    IF rows = <<>> THEN unique
    ELSE IF HasId(unique, Head(rows)[1]) THEN AddMissing(unique, Tail(rows))
    ELSE AddMissing(Append(unique, Head(rows)), Tail(rows))

\* second loop: the neighbours of each result; a failing fetch is skipped.
\* The cursor runs every query in one transaction that is never rolled
\* back: when env.aborts, a failed query leaves the transaction aborted (or
\* the connection lost), and every later query on the cursor raises as well.
\* The result is unique_messages and whether the transaction is aborted.
\* AddNeighbors gives them after the neighbour queries of the first n results.
RECURSIVE AddNeighbors(_, _, _, _, _)
AddNeighbors(store, channel_id, results, env, n) ==
    IF n = 0 THEN {[unique |-> SeedResults(<<>>, results), aborted |-> FALSE]}
    ELSE UNION {IF p.aborted \/ results[n][1] \in env.nbrFail
                THEN {[unique |-> p.unique, aborted |-> p.aborted \/ env.aborts]}
                ELSE {[unique |-> AddMissing(p.unique, nb), aborted |-> FALSE] :
                      nb \in NeighborQuery(store, channel_id, results[n][3])} :
                p \in AddNeighbors(store, channel_id, results, env, n - 1)}

\* search_messages_with_neighbors from its first loop on, for the results of
\* search: the contents unique_messages may end with
expand(store, channel_id, results, env) ==
    UNION {IF env.tail /\ ~p.aborted
           THEN {AddMissing(p.unique, t) : t \in TailQuery(store, channel_id)}
           ELSE {p.unique} :
           p \in AddNeighbors(store, channel_id, results, env, Len(results))}

\* list(unique_messages.values())
Values(unique) == [i \in 1..Len(unique) |-> unique[i][2]]

\* list(unique_messages.keys()): the id behind each returned message
Keys(unique) == [i \in 1..Len(unique) |-> unique[i][1]]

\* search_messages_with_neighbors(): the outcomes it may have under env =
\* [conn, embed, searchDb, nbrFail, aborts, tail].  conn: its own
\* get_db_connection succeeds; nbrFail: the hits whose neighbour query
\* raises; tail: the query of the last messages raises nothing of its own.
\* hits: what search returned; connected: get_db_connection was called;
\* queried: a query was sent on its connection.
search_messages_with_neighbors(store, query, channel_id, top_k, threshold, env) ==
    IF ~env.conn
    THEN {[raised |-> TRUE, value |-> <<>>, ids |-> <<>>, hits |-> <<>>,
           connected |-> TRUE, embedded |-> FALSE, queried |-> FALSE]}
    ELSE UNION {
      {[raised |-> FALSE, value |-> Values(u), ids |-> Keys(u), hits |-> s.value,
        connected |-> TRUE, embedded |-> s.embedded, queried |-> TRUE] :
       u \in expand(store, channel_id, s.value, env)} :
      s \in search_call(store, query, channel_id, top_k, threshold,
                        env.embed, env.searchDb)}

(***************************************************************************)
(* utils/jira_operations.py                                                *)
(***************************************************************************)
\* get_all_issues() under env = [token, cloud, http, issues]: it raises
\* without a token or a cloud id and on a failed GET, else it returns the
\* formatted issues
get_all_issues(env) ==
    IF ~env.token \/ ~env.cloud \/ env.http # "ok"
    THEN [kind |-> "raise", value |-> <<>>]
    ELSE [kind |-> "return",
          value |-> [i \in 1..Len(env.issues) |->
                       [summary |-> Get(env.issues[i], "summary", ""),
                        status  |-> Get(env.issues[i], "status", "")]]]

\* create_issue posting whatever the decision says
create_issue_Ungated(ticket_data, env) ==
    IF ~env.token
    THEN [kind |-> "raise", posted |-> 0, created |-> 0]
    ELSE CASE env.post = "created"      -> [kind |-> "return", posted |-> 1, created |-> 1]
           [] env.post = "http_error"   -> [kind |-> "raise",  posted |-> 1, created |-> 0]
           [] env.post = "created_lost" -> [kind |-> "raise",  posted |-> 1, created |-> 1]
           [] env.post = "hang"         -> [kind |-> "hang",   posted |-> 1, created |-> 0]
           [] env.post = "created_hang" -> [kind |-> "hang",   posted |-> 1, created |-> 1]

\* create_issue catching its errors and returning as if no ticket was wanted
create_issue_SwallowsErrors(ticket_data, env) ==
    IF ~env.token
    THEN [kind |-> "return", posted |-> 0, created |-> 0]
    ELSE IF Get(ticket_data, "should_create_ticket", FALSE) = TRUE
    THEN CASE env.post = "created"      -> [kind |-> "return", posted |-> 1, created |-> 1]
           [] env.post = "http_error"   -> [kind |-> "return", posted |-> 1, created |-> 0]
           [] env.post = "created_lost" -> [kind |-> "return", posted |-> 1, created |-> 1]
           [] env.post = "hang"         -> [kind |-> "hang",   posted |-> 1, created |-> 0]
           [] env.post = "created_hang" -> [kind |-> "hang",   posted |-> 1, created |-> 1]
    ELSE [kind |-> "return", posted |-> 0, created |-> 0]

\* create_issue(ticket_data) under env = [token, post]: what the call does
\* to the tracker (posted, created) and how it ends.  post is the fate of
\* the POST: "created" (2xx, body read), "http_error" (4xx/5xx, nothing
\* created), "created_lost" (the tracker created the issue, then the
\* connection or the body failed and requests raised), "hang" (the POST
\* never returns), "created_hang" (created, the reply never arrives)
create_issue(ticket_data, env) ==
    IF ~env.token
    THEN [kind |-> "raise", posted |-> 0, created |-> 0]
    ELSE IF Get(ticket_data, "should_create_ticket", FALSE) = TRUE
    THEN CASE env.post = "created"      -> [kind |-> "return", posted |-> 1, created |-> 1]
           [] env.post = "http_error"   -> [kind |-> "raise",  posted |-> 1, created |-> 0]
           [] env.post = "created_lost" -> [kind |-> "raise",  posted |-> 1, created |-> 1]
           [] env.post = "hang"         -> [kind |-> "hang",   posted |-> 1, created |-> 0]
           [] env.post = "created_hang" -> [kind |-> "hang",   posted |-> 1, created |-> 1]
    ELSE [kind |-> "return", posted |-> 0, created |-> 0]

(***************************************************************************)
(* utils/llm.py                                                            *)
(***************************************************************************)
\* get_ticket_details(metadata) under env = [client, call, payload]: client
\* is whether OpenAI(...) could be constructed; call is the fate of
\* chain.invoke: "ok" (payload parsed into TicketDetailsSchema),
\* "exception", "unparseable", or "timeout" (no reply while the caller
\* lives)
get_ticket_details(metadata, env) ==
    IF ~env.client
    THEN [kind |-> "raise", value |-> <<>>]
    ELSE IF env.call = "timeout"
    THEN [kind |-> "hang", value |-> <<>>]
    ELSE IF \/ env.call \in {"exception", "unparseable"}
            \/ {"messages", "existing_tickets", "query"} \ DOMAIN metadata # {}
    THEN [kind |-> "return", value |-> [should_create_ticket |-> FALSE]]
    ELSE [kind |-> "return", value |-> env.payload]

(***************************************************************************)
(* The pipeline: run_workflow.main starts SlackagentWorkflow.run, whose    *)
(* six execute_activity calls are served by the worker of run_worker.main. *)
(***************************************************************************)
\* the order of the execute_activity calls in SlackagentWorkflow.run
Activities == <<"say_hello", "query_vector_db", "query_jira",
                "call_llm_for_ticket_details", "create_jira_ticket",
                "log_workflow_result">>

ActivityNames == {Activities[i] : i \in 1..Len(Activities)}

\* top_k and threshold of the metadata built by main; the threshold
\* query_vector_db passes to the search
PipelineTopK == 5
PipelineThreshold == 50
ActivityThreshold == 50

\* the text and the channel of the mention that triggers each run
EventText(r) == IF r = "r1" THEN <<"@", "a">> ELSE <<"@", "b", " ">>

EventChannel(r) == IF r = "r1" THEN <<"A">> ELSE <<"B">>

\* the metadata main passes to the workflow
Input(r) == [name |-> "sid", query |-> EventText(r), top_k |-> PipelineTopK,
             channel_id |-> EventChannel(r), threshold |-> PipelineThreshold]

\* the workflow id main starts every run under
WorkflowId(r) == "my-workflow-id"

\* the messages table the runs search
PipelineStore ==
    {[id |-> 1, channel_id |-> <<"A">>, message |-> "m1", created_at |-> 1, distance |-> 20],
     [id |-> 2, channel_id |-> <<"A">>, message |-> "m2", created_at |-> 2, distance |-> 70],
     [id |-> 3, channel_id |-> <<"A">>, message |-> "m3", created_at |-> 3, distance |-> 40],
     [id |-> 4, channel_id |-> <<"B">>, message |-> "m4", created_at |-> 1, distance |-> 30]}

\* what the database and the embedding service may do during one retrieval
RetrievalEnvs ==
    {[conn |-> c, embed |-> e, searchDb |-> TRUE, nbrFail |-> {}, aborts |-> TRUE,
      tail |-> TRUE] :
     c \in BOOLEAN, e \in BOOLEAN}

\* what the tracker may do during one listing of the open issues
JiraEnvs ==
    {[token |-> FALSE, cloud |-> TRUE, http |-> "ok", issues |-> <<>>],
     [token |-> TRUE, cloud |-> FALSE, http |-> "ok", issues |-> <<>>],
     [token |-> TRUE, cloud |-> TRUE, http |-> "error", issues |-> <<>>],
     [token |-> TRUE, cloud |-> TRUE, http |-> "ok", issues |-> <<>>],
     [token |-> TRUE, cloud |-> TRUE, http |-> "ok",
      issues |-> <<[summary |-> "s1", status |-> "Open"]>>]}

\* the decisions the model may return in TicketDetailsSchema shape
Payloads ==
    {[ticket_id |-> "", ticket_title |-> "T", ticket_description |-> "D",
      ticket_status |-> "Open", ticket_priority |-> "High", ticket_assignee |-> "",
      should_create_ticket |-> TRUE],
     [ticket_id |-> "", ticket_title |-> "T", ticket_description |-> "D",
      ticket_status |-> "Open", ticket_priority |-> "High", ticket_assignee |-> "u",
      should_create_ticket |-> FALSE]}

\* what the model client may do during one call of get_ticket_details
LlmEnvs ==
    {[client |-> FALSE, call |-> "ok", payload |-> p] : p \in Payloads} \cup
    {[client |-> TRUE, call |-> c, payload |-> p] :
     c \in {"ok", "exception", "unparseable", "timeout"}, p \in Payloads}

\* what the tracker may do during one call of create_issue
CreateEnvs ==
    {[token |-> FALSE, post |-> "created"]} \cup
    {[token |-> TRUE, post |-> p] :
     p \in {"created", "http_error", "created_lost", "hang", "created_hang"}}

\* the result of the last completed activity: the argument of the next one
LastResult(r) ==
    IF history[r] = <<>> THEN Input(r) ELSE history[r][Len(history[r])].result

\* a workflow that does not await the activity before its next statement
ActivityDone_NotAwaited(r, a) == TRUE

\* the activity's result is recorded: the await of its execute_activity returns
ActivityDone(r, a) == \E i \in 1..Len(history[r]) : history[r][i].activity = a

\* the execute_activity call is already in the run's event history, so a
\* replaying workflow does not schedule it again
Recorded(r, a) == a \in scheduled[r]

\* the runs main may not start a second time: open runs of the same workflow id
OpenWithId(id) == {o \in Runs : wfStatus[o] = "Running" /\ WorkflowId(o) = id}

\* no function is being called on its own
NoRequest == [fn |-> "none"]

\* no run has been started
PipelineIdle ==
    /\ wfStatus = [r \in Runs |-> "NotStarted"]
    /\ wfPos = [r \in Runs |-> 1]
    /\ scheduled = [r \in Runs |-> {}]
    /\ pending = [r \in Runs |-> {}]
    /\ history = [r \in Runs |-> <<>>]
    /\ completed = [r \in Runs |-> {}]
    /\ attempts = [r \in Runs |-> 0]
    /\ failedStep = [r \in Runs |-> "none"]
    /\ posts = [r \in Runs |-> 0]
    /\ issues = [r \in Runs |-> 0]
    /\ fault = [r \in Runs |-> "none"]

\* MemoryOAuthStateStore.__init__: self.states = {}
OAuthIdle ==
    /\ states = [s \in {} |-> 0]
    /\ now = 0
    /\ oauthCalls = <<>>

Init ==
    /\ PipelineIdle
    /\ request = NoRequest
    /\ outcomes = <<>>
    /\ OAuthIdle

\* main(query, channel_id): client.execute_workflow(..., id="my-workflow-id")
main(r) ==
    /\ wfStatus[r] = "NotStarted"
    /\ wfStatus' = [wfStatus EXCEPT ![r] =
                      IF OpenWithId(WorkflowId(r)) # {} THEN "Rejected" ELSE "Running"]
    /\ UNCHANGED <<wfPos, scheduled, pending, history, completed, attempts,
                   failedStep, posts, issues, fault>>
    /\ UNCHANGED <<callVars, oauthVars>>

\* SlackagentWorkflow.run from its statement pos on, against the run's
\* history: each execute_activity call not yet in the history is scheduled,
\* and the workflow goes past an await once the activity's result is there.
\* The result is the statement the workflow stops at and what is scheduled.
RECURSIVE RunFrom(_, _, _)
RunFrom(r, pos, sched) ==
    IF pos > Len(Activities) THEN [pos |-> pos, scheduled |-> sched]
    ELSE LET a == Activities[pos]
             s == IF Recorded(r, a) THEN sched ELSE sched \cup {a}
         IN  IF ActivityDone(r, a) THEN RunFrom(r, pos + 1, s)
             ELSE [pos |-> pos, scheduled |-> s]

\* a workflow task: the worker runs the workflow on from where it stands,
\* up to its next unfinished await or to its return
WorkflowTask(r) ==
    /\ wfStatus[r] = "Running"
    /\ LET to == RunFrom(r, wfPos[r], scheduled[r]) IN
       /\ to.pos # wfPos[r] \/ to.scheduled # scheduled[r]
       /\ wfPos' = [wfPos EXCEPT ![r] = to.pos]
       /\ scheduled' = [scheduled EXCEPT ![r] = to.scheduled]
       /\ pending' = [pending EXCEPT ![r] = @ \cup (to.scheduled \ scheduled[r])]
       /\ wfStatus' = [wfStatus EXCEPT ![r] =
                         IF to.pos > Len(Activities) THEN "Completed" ELSE @]
    /\ UNCHANGED <<history, completed, attempts, failedStep, posts, issues,
                   fault>>
    /\ UNCHANGED <<callVars, oauthVars>>

\* a restart after which nothing is known of the activities scheduled before
KeptOnRestart_Forgotten(r) == {}

\* what a restarted worker finds of the run's scheduled activities: the
\* event history is kept by the server, not by the worker
KeptOnRestart(r) == scheduled[r]

\* the worker process is restarted: the workflow is run again from its first
\* statement against the run's event history
WorkerRestart(r) ==
    /\ wfStatus[r] = "Running"
    /\ wfPos[r] > 1
    /\ wfPos' = [wfPos EXCEPT ![r] = 1]
    /\ scheduled' = [scheduled EXCEPT ![r] = KeptOnRestart(r)]
    /\ UNCHANGED <<wfStatus, pending, history, completed, attempts,
                   failedStep, posts, issues, fault>>
    /\ UNCHANGED <<callVars, oauthVars>>

\* schedule_to_close_timeout=timedelta(seconds=10) expires on a pending
\* activity: execute_activity raises and run() lets it through
ActivityTimeout(r) ==
    /\ wfStatus[r] = "Running"
    /\ \E a \in pending[r] :
          /\ wfStatus' = [wfStatus EXCEPT ![r] = "Failed"]
          /\ failedStep' = [failedStep EXCEPT ![r] = a]
          /\ pending' = [pending EXCEPT ![r] = {}]
          /\ attempts' = [attempts EXCEPT ![r] = 0]
    /\ UNCHANGED <<wfPos, scheduled, history, completed, posts, issues, fault>>
    /\ UNCHANGED <<callVars, oauthVars>>

\* an attempt of activity a may run now
Attemptable(r, a) ==
    /\ wfStatus[r] = "Running"
    /\ a \in pending[r]
    /\ attempts[r] < MaxAttempts

\* the attempt ends: "return" completes the activity with the value, "raise"
\* leaves it to be retried after the backoff, "hang" never reports and so
\* uses up what is left of the activity's schedule_to_close window
Report(r, a, kind, value) ==
    /\ attempts' = [attempts EXCEPT ![r] =
                      IF kind = "return" THEN 0
                      ELSE IF kind = "raise" THEN @ + 1 ELSE MaxAttempts]
    /\ IF kind = "return"
       THEN /\ history' = [history EXCEPT ![r] =
                             Append(@, [activity |-> a, result |-> value])]
            /\ pending' = [pending EXCEPT ![r] = @ \ {a}]
            /\ completed' = [completed EXCEPT ![r] = @ \cup {a}]
       ELSE UNCHANGED <<history, pending, completed>>
    /\ UNCHANGED <<wfStatus, wfPos, scheduled, failedStep>>
    /\ UNCHANGED <<callVars, oauthVars>>

\* the worker running the attempt is lost before the activity reports
ActivityLost(r) ==
    /\ \E a \in pending[r] :
          /\ Attemptable(r, a)
          /\ Report(r, a, "hang", <<>>)
    /\ fault' = [fault EXCEPT ![r] = "lost"]
    /\ UNCHANGED <<posts, issues>>

say_hello(r) ==
    /\ Attemptable(r, "say_hello")
    /\ Report(r, "say_hello", "return", LastResult(r))
    /\ fault' = [fault EXCEPT ![r] = "none"]
    /\ UNCHANGED <<posts, issues>>

\* the search the body of query_vector_db makes for the context metadata
Retrieval(metadata, store, env) ==
    search_messages_with_neighbors(
        store, metadata["query"], metadata["channel_id"],
        Some(metadata["top_k"]), Some(ActivityThreshold), env)

query_vector_db(r) ==
    /\ Attemptable(r, "query_vector_db")
    /\ LET metadata == LastResult(r) IN
       \E env \in RetrievalEnvs :
       \E out \in Retrieval(metadata, PipelineStore, env) :
          /\ fault' = [fault EXCEPT ![r] =
                 IF ~env.conn THEN "db_conn"
                 ELSE IF ~env.embed THEN "embedding"
                 ELSE IF ~env.tail THEN "tail" ELSE "none"]
          /\ IF out.raised
             THEN Report(r, "query_vector_db", "raise", <<>>)
             ELSE Report(r, "query_vector_db", "return",
                         Put(metadata, "messages", out.value))
    /\ UNCHANGED <<posts, issues>>

query_jira(r) ==
    /\ Attemptable(r, "query_jira")
    /\ LET metadata == LastResult(r) IN
       \E env \in JiraEnvs :
          LET out == get_all_issues(env) IN
          /\ fault' = [fault EXCEPT ![r] =
                 IF out.kind = "raise" THEN "jira" ELSE "none"]
          /\ IF out.kind = "raise"
             THEN Report(r, "query_jira", "raise", <<>>)
             ELSE Report(r, "query_jira", "return",
                         Put(metadata, "existing_tickets", out.value))
    /\ UNCHANGED <<posts, issues>>

call_llm_for_ticket_details(r) ==
    /\ Attemptable(r, "call_llm_for_ticket_details")
    /\ LET metadata == LastResult(r) IN
       \E env \in LlmEnvs :
          LET out == get_ticket_details(metadata, env) IN
          /\ fault' = [fault EXCEPT ![r] =
                 IF out.kind = "raise" THEN "llm_raised"
                 ELSE IF out.kind = "hang" THEN "llm_timeout"
                 ELSE IF env.call = "ok" THEN "none" ELSE "llm_caught"]
          /\ IF out.kind = "return"
             THEN Report(r, "call_llm_for_ticket_details", "return",
                         Put(metadata, "ticket_details", out.value))
             ELSE Report(r, "call_llm_for_ticket_details", out.kind, <<>>)
    /\ UNCHANGED <<posts, issues>>

create_jira_ticket(r) ==
    /\ Attemptable(r, "create_jira_ticket")
    /\ LET metadata == LastResult(r) IN
       IF "ticket_details" \notin DOMAIN metadata
       THEN /\ Report(r, "create_jira_ticket", "raise", <<>>)
            /\ fault' = [fault EXCEPT ![r] = "create"]
            /\ UNCHANGED <<posts, issues>>
       ELSE \E env \in CreateEnvs :
               LET out == create_issue(metadata["ticket_details"], env) IN
               /\ posts' = [posts EXCEPT ![r] = @ + out.posted]
               /\ issues' = [issues EXCEPT ![r] = @ + out.created]
               /\ fault' = [fault EXCEPT ![r] =
                      IF out.kind = "return" THEN "none" ELSE "create"]
               /\ Report(r, "create_jira_ticket", out.kind, metadata)

log_workflow_result(r) ==
    /\ Attemptable(r, "log_workflow_result")
    /\ Report(r, "log_workflow_result", "return", LastResult(r))
    /\ fault' = [fault EXCEPT ![r] = "none"]
    /\ UNCHANGED <<posts, issues>>

Next ==
    \E r \in Runs :
       \/ main(r)
       \/ WorkflowTask(r)
       \/ WorkerRestart(r)
       \/ ActivityTimeout(r)
       \/ ActivityLost(r)
       \/ say_hello(r)
       \/ query_vector_db(r)
       \/ query_jira(r)
       \/ call_llm_for_ticket_details(r)
       \/ create_jira_ticket(r)
       \/ log_workflow_result(r)

Spec == Init /\ [][Next]_vars

(***************************************************************************)
(* Single calls.  A request names one function of the program, its         *)
(* arguments and what its calls to the outside will meet; each call made   *)
(* for the request appends what it returned to outcomes.                   *)
(***************************************************************************)
\* calls made for one request
MaxCalls == 2

\* one more call may be made for the request of function fn
Callable(fn) == request.fn = fn /\ Len(outcomes) < MaxCalls

\* the call returns out
Returns(out) ==
    /\ outcomes' = Append(outcomes, out)
    /\ UNCHANGED request
    /\ UNCHANGED <<pipelineVars, oauthVars>>

(***************************************************************************)
(* listner/handlers.py.  The text of an event is a sequence of tokens.     *)
(***************************************************************************)
\* bot_mention = f"<@{bot_id}>"
BotMention(bot_id) == "<@" \o bot_id \o ">"

\* bot_mention in event["text"]
InText(token, text) == \E i \in 1..Len(text) : text[i] = token

\* asyncio.run(main(query, channel_id)) under start: Client.connect or
\* execute_workflow raises unless the run is started and completes
MainRaises(start) == start # "completed"

\* handle_message_events with ingest called before the run is started
handle_message_events_IngestFirst(event, env) ==
    IF event.subtype
    THEN [raised |-> FALSE, said |-> <<>>, started |-> FALSE, stored |-> <<>>,
          calls |-> <<>>]
    ELSE IF ~env.auth
    THEN [raised |-> TRUE, said |-> <<>>, started |-> FALSE, stored |-> <<>>,
          calls |-> <<"auth_test">>]
    ELSE LET is_bot_mention == InText(BotMention(env.bot_id), event.text)
             object == [channel_id |-> event.channel, user_id |-> event.user,
                        message |-> event.text, handled |-> is_bot_mention,
                        mention_bot |-> is_bot_mention]
             stored == IF env.ingest THEN <<object>> ELSE <<>>
         IN  IF is_bot_mention
             THEN [raised |-> MainRaises(env.start), said |-> <<>>, started |-> TRUE,
                   stored |-> stored, calls |-> <<"auth_test", "ingest", "main">>]
             ELSE [raised |-> FALSE, said |-> <<>>, started |-> FALSE,
                   stored |-> stored, calls |-> <<"auth_test", "ingest">>]

\* handle_message_events(event, say) under env = [bot_id, auth, start,
\* ingest]: whether it raised, what it sent with say, whether it called
\* main, the rows ingest stored, and the calls it made in their order
handle_message_events(event, env) ==
    IF event.subtype
    THEN [raised |-> FALSE, said |-> <<>>, started |-> FALSE, stored |-> <<>>,
          calls |-> <<>>]
    ELSE IF ~env.auth
    THEN [raised |-> TRUE, said |-> <<>>, started |-> FALSE, stored |-> <<>>,
          calls |-> <<"auth_test">>]
    ELSE LET is_bot_mention == InText(BotMention(env.bot_id), event.text)
             object == [channel_id |-> event.channel, user_id |-> event.user,
                        message |-> event.text, handled |-> is_bot_mention,
                        mention_bot |-> is_bot_mention]
             stored == IF env.ingest THEN <<object>> ELSE <<>>
         IN  IF is_bot_mention /\ MainRaises(env.start)
             THEN [raised |-> TRUE, said |-> <<>>, started |-> TRUE, stored |-> <<>>,
                   calls |-> <<"auth_test", "main">>]
             ELSE IF is_bot_mention
             THEN [raised |-> FALSE, said |-> <<>>, started |-> TRUE,
                   stored |-> stored, calls |-> <<"auth_test", "main", "ingest">>]
             ELSE [raised |-> FALSE, said |-> <<>>, started |-> FALSE,
                   stored |-> stored, calls |-> <<"auth_test", "ingest">>]

\* the message events delivered to the handler
HandlerEvents ==
    {[subtype |-> st, text |-> t, channel |-> c, user |-> "u1"] :
     st \in BOOLEAN,
     t \in {<<"<@U1>", "fix">>, <<"fix">>, <<"<@U2>", "fix">>},
     c \in {"A", "B"}}

\* what auth_test, the start of the run and ingest may do during one delivery
HandlerEnvs ==
    {[bot_id |-> "U1", auth |-> a, start |-> st, ingest |-> i] :
     a \in BOOLEAN,
     st \in {"completed", "connect_error", "already_started", "run_failed"},
     i \in BOOLEAN}

HandlerRequests ==
    {[fn |-> "handle_message_events", event |-> e, env |-> v] :
     e \in HandlerEvents, v \in HandlerEnvs}

\* the Slack app delivers the event to the handler
DeliverEvent ==
    /\ Callable("handle_message_events")
    /\ Returns(handle_message_events(request.event, request.env))

(***************************************************************************)
(* Calls of db/search.py and of the retrieval activity                     *)
(***************************************************************************)
\* the scenario table: five messages of channel A, two of them nearer than
\* 0.5 to the query, and a nearer message of channel B
ScenarioStore ==
    {[id |-> 1, channel_id |-> <<"A">>, message |-> "m1", created_at |-> 1, distance |-> 30],
     [id |-> 2, channel_id |-> <<"A">>, message |-> "m2", created_at |-> 2, distance |-> 60],
     [id |-> 3, channel_id |-> <<"A">>, message |-> "m3", created_at |-> 3, distance |-> 20],
     [id |-> 4, channel_id |-> <<"A">>, message |-> "m4", created_at |-> 4, distance |-> 70],
     [id |-> 5, channel_id |-> <<"A">>, message |-> "m5", created_at |-> 5, distance |-> 60],
     [id |-> 6, channel_id |-> <<"B">>, message |-> "m6", created_at |-> 6, distance |-> 10]}

\* a table with six messages of channel A, the two oldest written within the
\* same second (created_at is time.strftime('%Y-%m-%d %H:%M:%S'))
SameSecondStore ==
    {[id |-> 1, channel_id |-> <<"A">>, message |-> "m1", created_at |-> 1, distance |-> 40],
     [id |-> 2, channel_id |-> <<"A">>, message |-> "m2", created_at |-> 1, distance |-> 90],
     [id |-> 3, channel_id |-> <<"A">>, message |-> "m3", created_at |-> 2, distance |-> 80],
     [id |-> 4, channel_id |-> <<"A">>, message |-> "m4", created_at |-> 3, distance |-> 80],
     [id |-> 5, channel_id |-> <<"A">>, message |-> "m5", created_at |-> 4, distance |-> 90],
     [id |-> 6, channel_id |-> <<"A">>, message |-> "m6", created_at |-> 5, distance |-> 20]}

\* a table with twelve messages of channel A written one after the other,
\* the oldest the only one near the query
LongStore ==
    {[id |-> i, channel_id |-> <<"A">>, message |-> "m", created_at |-> i,
      distance |-> IF i = 1 THEN 10 ELSE 80 + i] : i \in 1..12}

Stores == {ScenarioStore, SameSecondStore, LongStore}

Queries == {<<>>, <<" ">>, <<"w">>, <<" ", "w">>}

Channels == {<<>>, <<" ">>, <<"A">>, <<"A", " ">>, <<"B">>}

TopKs == {<<>>, Some(0), Some(0 - 1), Some(1), Some(2), Some(4)}

Thresholds == {<<>>, Some(30), Some(50)}

SearchRequests ==
    {[fn |-> "search", store |-> st, query |-> q, channel_id |-> c, top_k |-> k,
      threshold |-> t, embedOk |-> e, dbOk |-> d] :
     st \in Stores, q \in Queries, c \in Channels, k \in TopKs,
     t \in Thresholds, e \in BOOLEAN, d \in BOOLEAN}

\* what the database and the embedding service may do during one call of
\* search_messages_with_neighbors
ExpanderEnvs ==
    {[conn |-> c, embed |-> e, searchDb |-> d, nbrFail |-> n[1], aborts |-> n[2],
      tail |-> t] :
     c \in BOOLEAN, e \in BOOLEAN, d \in BOOLEAN,
     n \in {<<{}, TRUE>>, <<{1}, TRUE>>, <<{1}, FALSE>>}, t \in BOOLEAN}

ExpanderRequests ==
    {[fn |-> "search_messages_with_neighbors", store |-> st, query |-> q,
      channel_id |-> c, top_k |-> k, threshold |-> t, env |-> v] :
     st \in Stores, q \in Queries, c \in Channels, k \in TopKs,
     t \in Thresholds, v \in ExpanderEnvs}

\* the contexts a workflow may be executed with: those of main, and contexts
\* with another top_k or threshold
Contexts ==
    {[name |-> "sid", query |-> q, top_k |-> k, channel_id |-> c, threshold |-> t] :
     q \in {<<"w">>}, k \in {1, PipelineTopK}, c \in {<<"A">>, <<"B">>},
     t \in {30, PipelineThreshold}}

RetrievalRequests ==
    {[fn |-> "query_vector_db", store |-> st, metadata |-> m, env |-> v] :
     st \in Stores, m \in Contexts, v \in ExpanderEnvs}

\* search(query, channel_id, top_k, threshold) is called
CallSearch ==
    /\ Callable("search")
    /\ \E out \in search_call(request.store, request.query, request.channel_id,
                               request.top_k, request.threshold,
                               request.embedOk, request.dbOk) :
          Returns(out)

\* search_messages_with_neighbors(query, channel_id, top_k, threshold) is called
CallSearchWithNeighbors ==
    /\ Callable("search_messages_with_neighbors")
    /\ \E out \in search_messages_with_neighbors(
                     request.store, request.query, request.channel_id,
                     request.top_k, request.threshold, request.env) :
          Returns(out)

\* the body of the activity query_vector_db runs on the context
CallQueryVectorDb ==
    /\ Callable("query_vector_db")
    /\ \E out \in Retrieval(request.metadata, request.store, request.env) :
          Returns(out)

(***************************************************************************)
(* Calls of utils/llm.py                                                   *)
(***************************************************************************)
\* the open issues query_jira may have put into the context
TicketLists ==
    {<<>>,
     <<[summary |-> "T", status |-> "Open"]>>,
     <<[summary |-> "s1", status |-> "Open"]>>,
     <<[summary |-> "s1", status |-> "Open"], [summary |-> "T", status |-> "Open"]>>}

GateRequests ==
    {[fn |-> "get_ticket_details",
      metadata |-> [query |-> <<"w">>, messages |-> m, existing_tickets |-> t],
      env |-> v] :
     m \in {<<>>, <<"m1">>}, t \in TicketLists, v \in LlmEnvs}

\* get_ticket_details(metadata) is called
CallGetTicketDetails ==
    /\ Callable("get_ticket_details")
    /\ Returns(get_ticket_details(request.metadata, request.env))

(***************************************************************************)
(* slack_activities/embedding.py.  replies[i] is what the i-th call of      *)
(* client.embeddings.create meets: a vector, or one of the exceptions.     *)
(***************************************************************************)
DefaultMaxRetries == 3

\* 2 ** attempt
RECURSIVE Pow2(_)
Pow2(n) == IF n <= 0 THEN 1 ELSE 2 * Pow2(n - 1)

\* the loop "for attempt in range(max_retries)" from attempt on, and the
\* raise after it; slept is the seconds spent in time.sleep so far
RECURSIVE EmbeddingAttempt(_, _, _, _)
EmbeddingAttempt(attempt, max_retries, replies, slept) ==
    IF attempt >= max_retries
    THEN [kind |-> "raise", value |-> <<>>, calls |-> attempt, slept |-> slept]
    ELSE LET reply == replies[attempt + 1] IN
         CASE reply.kind = "vector" ->
                [kind |-> "return", value |-> reply.vector, calls |-> attempt + 1,
                 slept |-> slept]
           [] reply.kind = "rate_limit" ->
                EmbeddingAttempt(attempt + 1, max_retries, replies,
                                 slept + Pow2(attempt))
           [] OTHER ->
                IF attempt = max_retries - 1
                THEN [kind |-> "raise", value |-> <<>>, calls |-> attempt + 1,
                      slept |-> slept]
                ELSE EmbeddingAttempt(attempt + 1, max_retries, replies, slept + 1)

\* get_embedding returning a vector of zeros where it should raise
get_embedding_ZerosOnFailure(message, max_retries, replies) ==
    IF message = <<>> \/ Strip(message) = <<>>
    THEN [kind |-> "raise", value |-> <<>>, calls |-> 0, slept |-> 0]
    ELSE LET out == EmbeddingAttempt(0, max_retries, replies, 0)
         IN  IF out.kind = "raise"
             THEN [out EXCEPT !.kind = "return", !.value = <<0, 0, 0>>]
             ELSE out

\* EmbeddingGenerator.get_embedding(message, max_retries)
get_embedding(message, max_retries, replies) ==
    IF message = <<>> \/ Strip(message) = <<>>
    THEN [kind |-> "raise", value |-> <<>>, calls |-> 0, slept |-> 0]
    ELSE EmbeddingAttempt(0, max_retries, replies, 0)

\* what one call of the embedding API may meet
Replies ==
    {[kind |-> "vector", vector |-> <<1, 2, 3>>],
     [kind |-> "vector", vector |-> <<4, 5, 6>>],
     [kind |-> "rate_limit", vector |-> <<>>],
     [kind |-> "api_error", vector |-> <<>>],
     [kind |-> "error", vector |-> <<>>]}

EmbeddingRequests ==
    {[fn |-> "get_embedding", message |-> m, max_retries |-> n, replies |-> rs] :
     m \in {<<" ">>, <<"w">>}, n \in 0..DefaultMaxRetries,
     rs \in [1..DefaultMaxRetries -> Replies]}

\* get_embedding(message, max_retries) is called
CallGetEmbedding ==
    /\ Callable("get_embedding")
    /\ Returns(get_embedding(request.message, request.max_retries, request.replies))

(***************************************************************************)
(* The specification of the single calls: any request, then the calls made *)
(* for it.                                                                 *)
(***************************************************************************)
Requests ==
    HandlerRequests \cup SearchRequests \cup ExpanderRequests \cup
    RetrievalRequests \cup GateRequests \cup EmbeddingRequests

InitCalls ==
    /\ PipelineIdle
    /\ request \in Requests
    /\ outcomes = <<>>
    /\ OAuthIdle

NextCalls ==
    \/ DeliverEvent
    \/ CallSearch
    \/ CallSearchWithNeighbors
    \/ CallQueryVectorDb
    \/ CallGetTicketDetails
    \/ CallGetEmbedding

SpecCalls == InitCalls /\ [][NextCalls]_vars

(***************************************************************************)
(* listner/store.py: MemoryOAuthStateStore.  Time is counted in minutes.   *)
(***************************************************************************)
\* timedelta(minutes=15)
StateLifetime == 15

\* the most calls of issue and consume in one behaviour
MaxOAuthCalls == 4

\* the last minute of the clock
MaxTime == 20

\* the minutes that pass in one step of the clock
ClockStep == 5

\* the strings secrets.token_urlsafe(32) may return, and the states a
\* callback may present
Tokens == {"s1", "s2", "s3"}

\* del d[k]
Del(d, k) == [x \in DOMAIN d \ {k} |-> d[x]]

\* issue(), secrets.token_urlsafe(32) returning state at the time t
issue(self_states, state, t) ==
    [value |-> state, states |-> Put(self_states, state, t + StateLifetime)]

\* consume answering True without deleting the state
consume_KeepsState(self_states, state) ==
    IF state \in DOMAIN self_states
    THEN [value |-> TRUE, states |-> self_states]
    ELSE [value |-> FALSE, states |-> self_states]

\* consume(state)
consume(self_states, state) ==
    IF state \in DOMAIN self_states
    THEN [value |-> TRUE, states |-> Del(self_states, state)]
    ELSE [value |-> FALSE, states |-> self_states]

\* the install flow calls issue()
CallIssue ==
    /\ Len(oauthCalls) < MaxOAuthCalls
    /\ \E state \in Tokens :
          LET r == issue(states, state, now)
          IN  /\ states' = r.states
              /\ oauthCalls' = Append(oauthCalls, [op |-> "issue", state |-> r.value])
    /\ UNCHANGED <<now, pipelineVars, callVars>>

\* the OAuth callback calls consume(state); expired tells whether the expiry
\* recorded for the state had passed
CallConsume ==
    /\ Len(oauthCalls) < MaxOAuthCalls
    /\ \E state \in Tokens :
          LET r == consume(states, state)
          IN  /\ states' = r.states
              /\ oauthCalls' = Append(oauthCalls,
                     [op |-> "consume", state |-> state, result |-> r.value,
                      expired |-> state \in DOMAIN states /\ now > states[state]])
    /\ UNCHANGED <<now, pipelineVars, callVars>>

\* time passes
MinutesPass ==
    /\ now < MaxTime
    /\ now' = now + ClockStep
    /\ UNCHANGED <<states, oauthCalls, pipelineVars, callVars>>

NextOAuth ==
    \/ CallIssue
    \/ CallConsume
    \/ MinutesPass

SpecOAuth == Init /\ [][NextOAuth]_vars

(***************************************************************************)
(* Properties                                                              *)
(***************************************************************************)
\* the decision in the context of run r, {} (an empty dict) before there is one
Decision(r) == Get(LastResult(r), "ticket_details", <<>>)

ShouldCreate(r) == Get(Decision(r), "should_create_ticket", FALSE) = TRUE

\* C1: in one run the tracker creates at most one issue for the run's
\* decision, however often the ticket-creation step is attempted.
C1_CreateIssueAtMostOnce == \A r \in Runs : issues[r] <= 1

\* C2: within a run the activities run in the order of Activities: an
\* activity is scheduled only when all before it have completed, at most one
\* is in progress, and the completed ones are exactly a prefix of Activities,
\* in order, none skipped and none repeated.
C2_StepsStrictlyOrdered ==
    \A r \in Runs :
       /\ Cardinality(pending[r]) <= 1
       /\ \A i \in 1..Len(Activities) :
             Activities[i] \in scheduled[r] =>
                \A j \in 1..(i - 1) : Activities[j] \in completed[r]
       /\ Len(history[r]) <= Len(Activities)
       /\ \A i \in 1..Len(history[r]) : history[r][i].activity = Activities[i]
       /\ pending[r] \cap completed[r] = {}

\* a run has gone through all six activities
C2_Witness ==
    \E r \in Runs : wfStatus[r] = "Completed" /\ Len(history[r]) = Len(Activities)

\* C3: a failure inside the retrieval step (no database connection, no
\* embedding) never fails the run: the run goes on to the existing-tickets
\* step.
C3_RetrievalNeverFailsRun ==
    \A r \in Runs :
       fault[r] \in {"db_conn", "embedding"} =>
          ~(wfStatus[r] = "Failed" /\ failedStep[r] = "query_vector_db")

\* C4: a failure while the open tickets are fetched never fails the run: the
\* run goes on to the decision step.
C4_FetchNeverFailsRun ==
    \A r \in Runs :
       fault[r] = "jira" =>
          ~(wfStatus[r] = "Failed" /\ failedStep[r] = "query_jira")

\* C5: get_ticket_details never raises, and when the model call fails the
\* decision it returns says not to create a ticket and has empty
\* descriptive fields.
C5_GateNeverRaises ==
    \A r \in Runs :
       /\ fault[r] # "llm_raised"
       /\ fault[r] = "llm_caught" =>
             /\ ~ShouldCreate(r)
             /\ \A k \in {"ticket_title", "ticket_description", "ticket_priority",
                          "ticket_assignee"} : Get(Decision(r), k, "") = ""

\* C6: a run whose model call threw or timed out has a decision that says
\* not to create, sends no issue-creation request, and does not fail at the
\* decision step (it goes on to logging and Done).
C6_ModelFailureStillDone ==
    \A r \in Runs :
       fault[r] \in {"llm_caught", "llm_timeout"} =>
          /\ ~ShouldCreate(r)
          /\ posts[r] = 0
          /\ ~(wfStatus[r] = "Failed" /\ failedStep[r] = "call_llm_for_ticket_details")

C8_CreateFailureSurfaces ==
    \A r \in Runs :
       /\ failedStep[r] = "create_jira_ticket" =>
             /\ wfStatus[r] = "Failed"
             /\ "create_jira_ticket" \notin completed[r]
             /\ "log_workflow_result" \notin scheduled[r]
       /\ "log_workflow_result" \in scheduled[r] => "create_jira_ticket" \in completed[r]
       /\ ("create_jira_ticket" \in completed[r] /\ ShouldCreate(r)) => issues[r] >= 1

\* a run with a decision to create whose every attempt posted and failed,
\* ended as failed at the ticket-creation step
C8_Witness ==
    \E r \in Runs :
       /\ wfStatus[r] = "Failed"
       /\ failedStep[r] = "create_jira_ticket"
       /\ ShouldCreate(r)
       /\ posts[r] = MaxAttempts
       /\ issues[r] = 0

\* C9: no attempt of an activity that has completed for a run is ever
\* executed again for that run, whatever restarts and retries occur.
C9_NoCompletedStepReexecuted ==
    [][\A r \in Runs : \A a \in pending[r] :
          (attempts'[r] > attempts[r] \/ Len(history'[r]) > Len(history[r]))
             => a \notin completed[r]]_vars

\* the worker was restarted after the run's ticket had been created and the
\* logging step scheduled
C9_Witness ==
    \E r \in Runs :
       /\ wfStatus[r] = "Running"
       /\ wfPos[r] = 1
       /\ "create_jira_ticket" \in completed[r]
       /\ "log_workflow_result" \in scheduled[r]
       /\ issues[r] = 1

\* C10: every run that a mention starts is accepted, also while another run
\* is in progress.
C10_BothRunsAccepted == \A r \in Runs : wfStatus[r] # "Rejected"

(***************************************************************************)
(* Properties of the single calls                                          *)
(***************************************************************************)
\* the outcomes of the calls made for a request of function fn
OutcomesOf(fn) ==
    IF request.fn = fn THEN {outcomes[i] : i \in 1..Len(outcomes)} ELSE {}

\* the delivered event is a user message that mentions the bot, and
\* auth_test tells the handler the bot's id
MentionsBot ==
    /\ request.fn = "handle_message_events"
    /\ ~request.event.subtype
    /\ request.env.auth
    /\ InText(BotMention(request.env.bot_id), request.event.text)

\* C11: for every message event that mentions the bot, the handler sends an
\* acknowledgment, and no exception propagates out of handle_message_events
\* when the start of the run or the run itself fails.
C11_MentionAcknowledgedNothingRaised ==
    MentionsBot =>
        \A out \in OutcomesOf("handle_message_events") :
            /\ out.said # <<>>
            /\ ~out.raised

\* a call of search with a non-blank query and channel_id
ValidSearch ==
    /\ request.fn = "search"
    /\ Strip(request.query) # <<>>
    /\ Strip(request.channel_id) # <<>>

\* the distances of the rows search returned
Distances(rows) == [i \in 1..Len(rows) |-> rows[i][4]]

\* ascending, equal neighbours allowed
Ascending(ds) == \A i \in 1..(Len(ds) - 1) : ds[i] <= ds[i + 1]

\* C12: for every valid non-empty query and channel_id, every hit search
\* returns is strictly nearer than the threshold when one is given, and the
\* hits come in ascending distance with or without a threshold.
C12_BelowThresholdAscending ==
    ValidSearch =>
        \A out \in OutcomesOf("search") :
            /\ Ascending(Distances(out.value))
            /\ \/ IsNone(request.threshold)
               \/ \A i \in 1..Len(out.value) :
                     out.value[i][4] < request.threshold[1]

\* search with threshold 0.5 returned the two messages nearer than 0.5 out of
\* a channel that also holds farther ones and one at exactly 0.3
C12_Witness ==
    /\ ValidSearch
    /\ request.store = ScenarioStore
    /\ request.threshold = Some(50)
    /\ \E out \in OutcomesOf("search") : Distances(out.value) = <<20, 30>>

\* the most results a request for top_k may get: none when top_k <= 0
Cap(top_k, threshold) ==
    IF EffectiveTopK(top_k, threshold) > 0 THEN EffectiveTopK(top_k, threshold) ELSE 0

\* C13 as stated: the number of results is at most top_k (the defaulted one
\* when it is omitted), for search and also for the result set the retrieval
\* step of the pipeline puts into the context.
C13_AtMostTopKAlsoInContext ==
    /\ \A out \in OutcomesOf("search") \cup OutcomesOf("search_messages_with_neighbors") :
          Len(out.value) <= Cap(request.top_k, request.threshold)
    /\ \A out \in OutcomesOf("query_vector_db") :
          Len(out.value) <= Cap(Some(request.metadata["top_k"]), Some(ActivityThreshold))

\* C13 amended: search returns at most top_k results (the defaulted top_k
\* when it is omitted, none when top_k <= 0).
C13_SearchAtMostTopK ==
    \A out \in OutcomesOf("search") :
        Len(out.value) <= Cap(request.top_k, request.threshold)

\* search with top_k = 2 and no threshold returned two of the five messages
\* of the channel
C13_Witness ==
    /\ ValidSearch
    /\ request.store = ScenarioStore
    /\ request.top_k = Some(2)
    /\ IsNone(request.threshold)
    /\ \E out \in OutcomesOf("search") : Len(out.value) = 2

\* C14: search called with a query that is empty or only whitespace returns
\* an empty sequence and calls neither the embedding service nor the
\* database, whatever the channel_id, top_k and threshold.
C14_BlankQueryNoCalls ==
    (request.fn = "search" /\ Strip(request.query) = <<>>) =>
        \A out \in OutcomesOf("search") :
            /\ out.value = <<>>
            /\ ~out.raised
            /\ ~out.embedded
            /\ ~out.connected

\* search was called with a query of one blank, all else valid and working
C14_Witness ==
    /\ request.fn = "search"
    /\ request.query = <<" ">>
    /\ request.channel_id = <<"A">>
    /\ request.top_k = Some(2)
    /\ request.embedOk /\ request.dbOk
    /\ outcomes # <<>>

\* the request is one search() rejects: blank query, top_k <= 0 or blank
\* channel_id
Rejected ==
    \/ Strip(request.query) = <<>>
    \/ EffectiveTopK(request.top_k, request.threshold) <= 0
    \/ Strip(request.channel_id) = <<>>

\* C15: a retrieval request with top_k <= 0, an empty query or an empty
\* channel_id is rejected before any I/O by search and by
\* search_messages_with_neighbors: no connection is opened, no query is run,
\* the embedding service is not called, and the result is empty.
C15_RejectedBeforeAnyIO ==
    /\ (request.fn = "search" /\ Rejected) =>
          \A out \in OutcomesOf("search") :
              out.value = <<>> /\ ~out.embedded /\ ~out.connected
    /\ (request.fn = "search_messages_with_neighbors" /\ Rejected) =>
          \A out \in OutcomesOf("search_messages_with_neighbors") :
              /\ out.value = <<>>
              /\ ~out.embedded
              /\ ~out.connected
              /\ ~out.queried

\* the embedding or the database fails during a search with valid inputs
SearchFails ==
    /\ ValidSearch
    /\ EffectiveTopK(request.top_k, request.threshold) > 0
    /\ (~request.embedOk \/ ~request.dbOk)

\* C16: for valid inputs, when the embedding generation fails or the store
\* raises, search returns an empty sequence and raises nothing.
C16_FailureGivesEmpty ==
    SearchFails =>
        \A out \in OutcomesOf("search") : out.value = <<>> /\ ~out.raised

\* search returned although the database failed after the embedding was made
C16_Witness ==
    /\ SearchFails
    /\ request.embedOk
    /\ \E out \in OutcomesOf("search") : out.embedded /\ out.connected

\* no id stands twice in the list
NoDuplicates(ids) ==
    \A i, j \in 1..Len(ids) : i # j => ids[i] # ids[j]

\* the ids of the list as a set
IdSet(ids) == {ids[i] : i \in 1..Len(ids)}

\* C17: the context set the expander builds has no duplicate message ids, and
\* running the expansion again with the same inputs against the unchanged
\* store yields the same set.
C17_NoDuplicatesSameSetAgain ==
    \A o1 \in OutcomesOf("search_messages_with_neighbors") :
        /\ NoDuplicates(o1.ids)
        /\ \A o2 \in OutcomesOf("search_messages_with_neighbors") :
              IdSet(o1.ids) = IdSet(o2.ids)

\* the decision the model returns is for a ticket whose title is the summary
\* of an open ticket of the context
OpenTicketMatches ==
    /\ request.fn = "get_ticket_details"
    /\ \E i \in 1..Len(request.metadata["existing_tickets"]) :
          request.metadata["existing_tickets"][i].summary =
              request.env.payload.ticket_title

\* C18: when existing_tickets holds an open ticket that matches the topic,
\* the decision the gate returns has should_create_ticket = false, whatever
\* payload the model returns.
C18_OpenMatchNeverCreates ==
    OpenTicketMatches =>
        \A out \in OutcomesOf("get_ticket_details") :
            out.kind = "return" =>
                Get(out.value, "should_create_ticket", FALSE) = FALSE

\* C19: the retrieval step searches with the top_k and the threshold of the
\* run's context: what it returns is what search_messages_with_neighbors
\* returns for the context's threshold.
C19_ContextThresholdApplied ==
    \A out \in OutcomesOf("query_vector_db") :
        \E o \in search_messages_with_neighbors(
                    request.store, request.metadata["query"],
                    request.metadata["channel_id"],
                    Some(request.metadata["top_k"]),
                    Some(request.metadata["threshold"]), request.env) :
            /\ o.raised = out.raised
            /\ IdSet(o.ids) = IdSet(out.ids)

\* the messages of the requested channel that are nearer than the threshold
Qualifying ==
    {m \in request.store :
        /\ m.channel_id = Strip(request.channel_id)
        /\ (IsNone(request.threshold) \/ m.distance < request.threshold[1])}

\* a working search with valid inputs
SearchWorks ==
    /\ ValidSearch
    /\ EffectiveTopK(request.top_k, request.threshold) > 0
    /\ request.embedOk /\ request.dbOk

FirstN(S, key, n) ==
    IF Cardinality(S) <= n THEN {S}
    ELSE LET cut == CHOOSE v \in {key[m] : m \in S} :
                       /\ Cardinality({m \in S : key[m] <= v}) >= n
                       /\ Cardinality({m \in S : key[m] < v}) < n
             sure == {m \in S : key[m] < cut}
             ties == {m \in S : key[m] = cut}
         IN  {sure \cup K : K \in {L \in SUBSET ties :
                                     Cardinality(L) = n - Cardinality(sure)}}

\* the messages of channel c
ChannelRows(store, c) == {m \in store : m.channel_id = c}

\* the messages of channel c written strictly after time t
LaterRows(store, c, t) == {m \in ChannelRows(store, c) : m.created_at > t}

\* the sets the up-to-5 earliest later messages of all the hits may add up to
RECURSIVE NeighborUnions(_, _, _)
NeighborUnions(store, c, hits) ==
    IF hits = <<>> THEN {{}}
    ELSE LET later == LaterRows(store, c, Head(hits)[3])
         IN  {N \cup U : N \in FirstN(later, [m \in later |-> m.created_at], 5),
                          U \in NeighborUnions(store, c, Tail(hits))}

\* the sets the up-to-5 latest messages of channel c may be
TailSets(store, c) ==
    LET chan == ChannelRows(store, c)
    IN  FirstN(chan, [m \in chan |-> 0 - m.created_at], 5)

\* the ids of a set of rows
RowIds(rows) == {m.id : m \in rows}

\* every hit is a message of the channel the expander is called for
HitsInChannel(out) ==
    \A i \in 1..Len(out.hits) :
        \E m \in ChannelRows(request.store, request.channel_id) :
            m.id = out.hits[i][1]

\* the connection, every neighbour query and the tail query work
AllFetchesWork ==
    /\ request.fn \in {"search_messages_with_neighbors", "query_vector_db"}
    /\ request.env.conn /\ request.env.nbrFail = {} /\ request.env.tail

\* every returned message is the text of the stored message with its id
EntriesFromStore(out) ==
    \A i \in 1..Len(out.ids) :
        \E m \in request.store : m.id = out.ids[i] /\ m.message = out.value[i]

\* C21: with all fetches succeeding, the context set for hits H of channel c
\* is exactly the union of the hits, of the up-to-5 earliest messages of c
\* written strictly after each hit, and of the up-to-5 latest messages of c;
\* a message written at the same time as a hit is not that hit's neighbour.
C21_ContextIsHitsNeighborsTail ==
    AllFetchesWork =>
        \A out \in OutcomesOf("search_messages_with_neighbors") :
            HitsInChannel(out) =>
                /\ EntriesFromStore(out)
                /\ \E U \in NeighborUnions(request.store, request.channel_id, out.hits),
                      T \in TailSets(request.store, request.channel_id) :
                      IdSet(out.ids) =
                          IdSet([i \in 1..Len(out.hits) |-> out.hits[i][1]])
                              \cup RowIds(U) \cup RowIds(T)

\* message 1 is a hit and message 2, written in the same second, is not in
\* the context: it is no neighbour of message 1 and the tail took message 1
C21_Witness ==
    /\ AllFetchesWork
    /\ request.fn = "search_messages_with_neighbors"
    /\ request.store = SameSecondStore
    /\ \E out \in OutcomesOf("search_messages_with_neighbors") :
          /\ \E i \in 1..Len(out.hits) : out.hits[i][1] = 1
          /\ 2 \notin IdSet(out.ids)
          /\ Len(out.ids) = 5

\* the list with its elements i and j exchanged
Swap(seq, i, j) ==
    [k \in 1..Len(seq) |-> IF k = i THEN seq[j] ELSE IF k = j THEN seq[i] ELSE seq[k]]

\* the (id, text) entries of unique_messages as a set
Entries(unique) == {unique[i] : i \in 1..Len(unique)}

\* the context sets the expansion of the hits may end with
ContextSets(hits) ==
    {Entries(u) : u \in expand(request.store, request.channel_id, hits, request.env)}

\* C22: the final context set does not depend on the order in which the hits
\* are processed: with any two hits exchanged, the expansion against the
\* unchanged store ends with the same set of (id, text) entries.
C22_HitOrderIrrelevant ==
    \A out \in OutcomesOf("search_messages_with_neighbors") :
        ~out.raised =>
            \A i, j \in 1..Len(out.hits) :
                ContextSets(Swap(out.hits, i, j)) = ContextSets(out.hits)

\* C23: a failing neighbour fetch loses only that hit's neighbours: the
\* expander does not raise, every hit stays in the context, the neighbours
\* of every other hit are in it, and so are the latest messages of the
\* channel unless the tail fetch itself fails.
C23_FailedFetchSkipsOnlyItself ==
    \A out \in OutcomesOf("search_messages_with_neighbors") :
        request.env.conn =>
            /\ ~out.raised
            /\ \A i \in 1..Len(out.hits) :
                  /\ out.hits[i][1] \in IdSet(out.ids)
                  /\ \/ out.hits[i][1] \in request.env.nbrFail
                     \/ \E N \in NeighborUnions(request.store, request.channel_id,
                                                 <<out.hits[i]>>) :
                           RowIds(N) \subseteq IdSet(out.ids)
            /\ \/ ~request.env.tail
               \/ \E T \in TailSets(request.store, request.channel_id) :
                     RowIds(T) \subseteq IdSet(out.ids)

(***************************************************************************)
(* Properties of the context of a run                                      *)
(***************************************************************************)
\* the field an activity writes into the context, "" if it writes none
OwnField(a) ==
    CASE a = "query_vector_db" -> "messages"
      [] a = "query_jira" -> "existing_tickets"
      [] a = "call_llm_for_ticket_details" -> "ticket_details"
      [] OTHER -> ""

\* the context the i-th completed activity of run r was called with
ContextBefore(r, i) == IF i = 1 THEN Input(r) ELSE history[r][i - 1].result

\* C24: the context of a run only grows: each step adds or overwrites only
\* its own field and leaves every other field as it was, say_hello,
\* create_jira_ticket and log_workflow_result change nothing, and the context
\* the run returns is the one that entered log_workflow_result.
C24_ContextOnlyGrows ==
    \A r \in Runs :
        /\ \A i \in 1..Len(history[r]) :
              LET before == ContextBefore(r, i)
                  after == history[r][i].result
                  own == OwnField(history[r][i].activity)
              IN  /\ DOMAIN after = DOMAIN before \cup ({own} \ {""})
                  /\ \A k \in DOMAIN before \ {own} : after[k] = before[k]
        /\ wfStatus[r] = "Completed" =>
              /\ history[r][Len(history[r])].activity = "log_workflow_result"
              /\ LastResult(r) = ContextBefore(r, Len(history[r]))

\* a run has completed with messages, existing tickets and a decision in the
\* context it returns
C24_Witness ==
    \E r \in Runs :
        /\ wfStatus[r] = "Completed"
        /\ {"messages", "existing_tickets", "ticket_details"} \subseteq DOMAIN LastResult(r)
        /\ LastResult(r)["messages"] # <<>>
        /\ LastResult(r)["query"] = Input(r).query

\* what client.execute_workflow gives main for run r: the context run()
\* returned once the run has completed, an exception (and no value) once
\* the run has failed or its start was rejected
execute_workflow(r) ==
    CASE wfStatus[r] = "Completed" ->
            [kind |-> "return", value |-> <<LastResult(r)>>]
      [] wfStatus[r] \in {"Failed", "Rejected"} ->
            [kind |-> "raise", value |-> <<>>]
      [] OTHER -> [kind |-> "waiting", value |-> <<>>]

\* C25: when a step of a run has exhausted its retries, the run surfaces the
\* failure of that step, and the context accumulated by the steps that
\* succeeded before it is handed to the caller of the run.
C25_FailedRunHandsOverContext ==
    \A r \in Runs :
        (wfStatus[r] = "Failed" /\ history[r] # <<>>) =>
            /\ failedStep[r] \in ActivityNames
            /\ execute_workflow(r).value = <<LastResult(r)>>

(***************************************************************************)
(* Properties of get_embedding                                             *)
(***************************************************************************)
\* the calls get_embedding may make at most
MaxEmbeddingCalls ==
    IF request.max_retries > 0 THEN request.max_retries ELSE 0

\* the i-th call is the first that the API answers with a vector
FirstVectorAt(i) ==
    /\ request.replies[i].kind = "vector"
    /\ \A j \in 1..(i - 1) : request.replies[j].kind # "vector"

\* C26: get_embedding ends after at most max_retries calls of the API,
\* whatever errors occur: it returns the vector of the first successful
\* call unchanged, or it raises when none of its calls succeeded (also when
\* the last one met a rate limit); it returns nothing else.
C26_ReturnsFirstVectorOrRaises ==
    \A out \in OutcomesOf("get_embedding") :
        /\ out.calls <= MaxEmbeddingCalls
        /\ out.kind \in {"return", "raise"}
        /\ out.kind = "return" =>
              \E i \in 1..MaxEmbeddingCalls :
                  /\ FirstVectorAt(i)
                  /\ out.calls = i
                  /\ out.value = request.replies[i].vector
        /\ out.kind = "raise" =>
              \/ Strip(request.message) = <<>>
              \/ \A i \in 1..MaxEmbeddingCalls : request.replies[i].kind # "vector"

\* three calls were made, the last met a rate limit, and get_embedding raised
C26_Witness ==
    /\ request.fn = "get_embedding"
    /\ request.max_retries = DefaultMaxRetries
    /\ request.replies[DefaultMaxRetries].kind = "rate_limit"
    /\ \E out \in OutcomesOf("get_embedding") :
          out.kind = "raise" /\ out.calls = DefaultMaxRetries

(***************************************************************************)
(* Properties of the retrieval without hits, the handler's order of calls  *)
(* and the size of the context                                             *)
(***************************************************************************)
\* the channel a retrieval request names
RequestChannel ==
    IF request.fn = "query_vector_db" THEN request.metadata["channel_id"]
    ELSE request.channel_id

\* the outcomes of the combined retrieval, called directly or by the activity
RetrievalOutcomes ==
    OutcomesOf("search_messages_with_neighbors") \cup OutcomesOf("query_vector_db")

\* C27: when search yields no hits and the database is reachable,
\* search_messages_with_neighbors returns exactly the up-to-5 latest messages
\* of the channel, so the messages of the context are not empty whenever the
\* channel has a message.
C27_NoHitsGivesChannelTail ==
    \A out \in RetrievalOutcomes :
        (request.env.conn /\ request.env.tail /\ out.hits = <<>>) =>
            /\ ~out.raised
            /\ EntriesFromStore(out)
            /\ \E T \in TailSets(request.store, RequestChannel) :
                  IdSet(out.ids) = RowIds(T)
            /\ ChannelRows(request.store, RequestChannel) # {} => out.value # <<>>

\* the query was empty, search returned no hit, and the five latest of the
\* twelve messages of the channel were returned
C27_Witness ==
    /\ request.fn = "search_messages_with_neighbors"
    /\ request.query = <<>>
    /\ request.store = LongStore
    /\ \E out \in OutcomesOf("search_messages_with_neighbors") :
          out.hits = <<>> /\ IdSet(out.ids) = 8..12

\* the positions of a call in the calls one delivery made
CallsOf(name, calls) == {i \in 1..Len(calls) : calls[i] = name}

\* a user message event without the mention of the bot, auth_test answering
NoMention ==
    /\ request.fn = "handle_message_events"
    /\ ~request.event.subtype
    /\ request.env.auth
    /\ ~InText(BotMention(request.env.bot_id), request.event.text)

\* C28: for a message that mentions the bot, handle_message_events calls
\* ingest only after the run of the pipeline has returned, and never when
\* starting or running the pipeline raises; a message without a mention is
\* ingested with no run, and an event with a subtype causes neither.
C28_IngestOnlyAfterRunReturned ==
    \A out \in OutcomesOf("handle_message_events") :
        /\ MentionsBot =>
              /\ \A i \in CallsOf("ingest", out.calls) :
                    \E m \in CallsOf("main", out.calls) : m < i
              /\ MainRaises(request.env.start) =>
                    /\ CallsOf("ingest", out.calls) = {}
                    /\ out.stored = <<>>
              /\ ~MainRaises(request.env.start) =>
                    Cardinality(CallsOf("ingest", out.calls)) = 1
        /\ NoMention =>
              /\ Cardinality(CallsOf("ingest", out.calls)) = 1
              /\ CallsOf("main", out.calls) = {}
              /\ ~out.started
        /\ (request.fn = "handle_message_events" /\ request.event.subtype) =>
              /\ CallsOf("ingest", out.calls) = {}
              /\ CallsOf("main", out.calls) = {}
              /\ out.stored = <<>>
              /\ ~out.started

\* a mention whose run completed, stored by ingest afterwards
C28_Witness ==
    /\ MentionsBot
    /\ request.env.start = "completed"
    /\ \E out \in OutcomesOf("handle_message_events") :
          /\ out.calls = <<"auth_test", "main", "ingest">>
          /\ out.stored # <<>>

\* the top_k a retrieval request runs search with
RequestCap ==
    IF request.fn = "query_vector_db"
    THEN Cap(Some(request.metadata["top_k"]), Some(ActivityThreshold))
    ELSE Cap(request.top_k, request.threshold)

\* hits, five later neighbours per hit, five latest messages of the channel
ContextBound(top_k) == top_k + NeighborLimit * top_k + TailLimit

\* C29: the number of messages the retrieval step puts into the context is
\* at most top_k + 5*top_k + 5, which is 35 for the top_k = 5 of the
\* pipeline, and at least the number of hits search returned.
C29_ContextSizeBetweenHitsAndBound ==
    /\ ContextBound(PipelineTopK) = 35
    /\ \A out \in RetrievalOutcomes :
          ~out.raised =>
              /\ Len(out.value) <= ContextBound(RequestCap)
              /\ Len(out.value) >= Len(out.hits)

\* top_k = 1 on the channel of twelve messages: the hit, its five later
\* neighbours and the five latest messages, eleven in all
C29_Witness ==
    /\ request.fn = "search_messages_with_neighbors"
    /\ request.store = LongStore
    /\ request.top_k = Some(1)
    /\ \E out \in OutcomesOf("search_messages_with_neighbors") :
          /\ Len(out.hits) = 1
          /\ Len(out.value) = ContextBound(1)

(***************************************************************************)
(* Properties of the OAuth state store                                     *)
(***************************************************************************)
\* the calls of issue, and the calls of consume answered True, for s
IssuesOf(s) ==
    {i \in 1..Len(oauthCalls) : oauthCalls[i].op = "issue" /\ oauthCalls[i].state = s}

ConsumesOf(s) ==
    {i \in 1..Len(oauthCalls) : oauthCalls[i].op = "consume" /\ oauthCalls[i].state = s}

\* s was issued before the call i and not presented to consume since
Outstanding(s, i) ==
    \E j \in IssuesOf(s) :
        /\ j < i
        /\ \A k \in ConsumesOf(s) : ~(j < k /\ k < i)

\* C30: after any sequence of issue and consume, consume(s) returns True at
\* most once for each issued s and False for a state never issued or already
\* consumed; it removes only s, every other outstanding state stays
\* consumable, and the expiry recorded at issue plays no part.
C30_ConsumeOncePerIssue ==
    /\ \A s \in Tokens :
          /\ \A i \in ConsumesOf(s) : oauthCalls[i].result <=> Outstanding(s, i)
          /\ Cardinality({i \in ConsumesOf(s) : oauthCalls[i].result})
                <= Cardinality(IssuesOf(s))
    /\ DOMAIN states = {s \in Tokens : Outstanding(s, Len(oauthCalls) + 1)}
    /\ \A s \in DOMAIN states : consume(states, s).value

\* s1 and s2 were issued, s1 was consumed after its expiry had passed and
\* presented once more in vain, and s2 is still outstanding
C30_Witness ==
    /\ \E i, j \in ConsumesOf("s1") :
          /\ i < j
          /\ oauthCalls[i].result /\ oauthCalls[i].expired
          /\ ~oauthCalls[j].result
    /\ DOMAIN states = {"s2"}
    /\ IssuesOf("s3") = {}

====
